---- MODULE Spec2Model ----
(***************************************************************************)
(* Model of swf/movie.py: the SWF container envelope (SWFHeader and SWF).  *)
(* A Python exception is modelled as the result string of the operation   *)
(* that raised it; "ok" is a normal return.                                *)
(***************************************************************************)
EXTENDS Integers, Sequences, FiniteSets, TLC

VARIABLES
    data,        \* SWF._data: the working SWFStream (or None)
    header,      \* SWF._header: the SWFHeader (or None)
    chunk_size,  \* SWF._chunk_size
    tags,        \* SWFTimelineContainer.tags of the document
    chunk_arg,   \* history: the chunk_size argument the document was constructed with
    sink,        \* the bytes the last save / SWFHeader.save call wrote to its file
    last,        \* the last operation: its name, how it ended, what it returned and
                 \* the force_stroke its caller gave
    calls,       \* the exporter.export calls the last operation made: the force_stroke
                 \* received and the result returned
    src,         \* history: the bytes handed to the last parse / SWFHeader(...)
    hdr_src,     \* history: the 8 bytes the current header was constructed from
    parsed       \* history: "never" (parse not called on this document), "ok" (some
                 \* parse returned normally) or "failed" (every parse raised)

vars == <<data, header, chunk_size, tags, chunk_arg, sink, last, calls, src,
          hdr_src, parsed>>

---------------------------------------------------------------------------
(* Bounds of the model *)

MaxTags == 1

---------------------------------------------------------------------------
(* Program constants *)

SigF == 70      \* 0x46 'F'
SigC == 67      \* 0x43 'C'
SigZ == 90      \* 0x5A 'Z'
SigW == 87      \* 0x57 'W'
SigS == 83      \* 0x53 'S'
LegacyVersion == 6          \* 0x06, the version bucket boundary
DefaultChunkSize == 4096
DecompressParams == 2       \* def decompress(decompress_method, input_buffer)
CompressParams == 2         \* def compress(compress_method, input_buffer)

Unset == -1                 \* an attribute that has not been assigned

---------------------------------------------------------------------------
(* SWFStream primitives (swf/stream.py): byte-aligned little-endian fields *)

NoData == [some |-> FALSE, f |-> <<>>, pos |-> 0]

SWFStream(bytes) == [some |-> TRUE, f |-> bytes, pos |-> 0]

readUI8(s) == [v |-> s.f[s.pos + 1], s |-> [s EXCEPT !.pos = @ + 1]]

readUI16(s) ==
    [v |-> s.f[s.pos + 1] + 256 * s.f[s.pos + 2], s |-> [s EXCEPT !.pos = @ + 2]]

readUI32(s) ==
    [v |-> s.f[s.pos + 1] + 256 * s.f[s.pos + 2] + 65536 * s.f[s.pos + 3]
           + 16777216 * s.f[s.pos + 4],
     s |-> [s EXCEPT !.pos = @ + 4]]

\* 8.8 fixed point, kept as its 16-bit raw value
readFIXED8(s) == readUI16(s)

\* the bit-packed rectangle, reduced to the one byte of a rectangle with Nbits = 0
readRECT(s) == readUI8(s)

writeUI8(file, v) == Append(file, v % 256)

writeUI16(file, v) == file \o <<v % 256, (v \div 256) % 256>>

writeUI32(file, v) ==
    file \o <<v % 256, (v \div 256) % 256, (v \div 65536) % 256,
              (v \div 16777216) % 256>>

writeFIXED8(file, v) == writeUI16(file, v)

writeRECT(file, v) == writeUI8(file, v)

---------------------------------------------------------------------------
(* The codecs (zlib, pylzma): a stream of a kind is a magic byte, the      *)
(* payload bytes shifted by the kind's key, and a one-byte checksum.       *)

Kinds == {"none", "zlib", "lzma"}

CodecMagic(kind) == IF kind = "zlib" THEN 120 ELSE 93

CodecKey(kind) == IF kind = "zlib" THEN 1 ELSE 2

RECURSIVE ByteSum(_)
ByteSum(p) == IF p = <<>> THEN 0 ELSE (Head(p) + ByteSum(Tail(p))) % 256

CodecEncode(kind, p) ==
    <<CodecMagic(kind)>> \o [i \in 1..Len(p) |-> (p[i] + CodecKey(kind)) % 256]
        \o <<ByteSum(p)>>

CodecPlain(kind, e) ==
    [i \in 1..(Len(e) - 2) |-> (e[i + 1] + 256 - CodecKey(kind)) % 256]

CodecValid(kind, e) ==
    /\ Len(e) >= 2
    /\ e[1] = CodecMagic(kind)
    /\ e[Len(e)] = ByteSum(CodecPlain(kind, e))

---------------------------------------------------------------------------
(* class SWFHeader *)

NoHeader ==
    [some |-> FALSE, version |-> 0, compressed_zlib |-> FALSE,
     compressed_lzma |-> FALSE, file_length |-> 0,
     frame_size |-> Unset, frame_rate |-> Unset, frame_count |-> Unset]

\* the signature the constructor does not raise on
SignatureAccepted(a, b, c, version) ==
    IF version > LegacyVersion
    THEN ~(a \notin {SigF, SigC, SigZ} \/ b # SigW \/ c # SigS)
    ELSE ~(a # SigC \/ b # SigW \/ c \notin {SigS, SigC, SigZ})

\* SWFHeader.__init__(stream): the result, the header built and the stream left
SWFHeader(stream) ==
    LET ra == readUI8(stream)
        rb == readUI8(ra.s)
        rc == readUI8(rb.s)
        rv == readUI8(rc.s)
        rl == readUI32(rv.s)
    IN  IF ~SignatureAccepted(ra.v, rb.v, rc.v, rv.v)
        THEN [res |-> "SWFHeaderException", header |-> NoHeader, stream |-> rv.s]
        ELSE [res |-> "ok",
              header |->
                [some |-> TRUE,
                 version |-> rv.v,
                 compressed_zlib |->
                    IF rv.v > LegacyVersion THEN ra.v = SigC ELSE rc.v = SigC,
                 compressed_lzma |->
                    IF rv.v > LegacyVersion THEN ra.v = SigZ ELSE rc.v = SigZ,
                 file_length |-> rl.v,
                 frame_size |-> Unset, frame_rate |-> Unset, frame_count |-> Unset],
              stream |-> rl.s]

\* SWFHeader.save(file, stream): the file after the writes
header_save(h, file) ==
    IF h.version > LegacyVersion
    THEN LET marker == IF h.compressed_zlib THEN SigC
                       ELSE IF h.compressed_lzma THEN SigZ
                       ELSE SigF
         IN  writeUI32(writeUI8(writeUI8(file, marker), h.version), h.file_length)
    ELSE file

compressed(h) == h.compressed_zlib \/ h.compressed_lzma

---------------------------------------------------------------------------
(* class SWF *)

\* self.m(x1, ..., xk) hands k + 1 positional arguments to the function m
BoundCallOk(nparams, nargs) == nparams = nargs + 1

\* a bool is not callable: value() raises TypeError
Callable(v) == v \notin BOOLEAN

\* SWF.decompress, called as self.decompress(decompress_method, self._data.f)
decompress(kind, input_buffer) ==
    IF ~BoundCallOk(DecompressParams, 2)
    THEN [res |-> "TypeError", out |-> <<>>]
    ELSE [res |-> "NameError", out |-> <<>>]   \* the body reads the unbound name self

decompress_zlib(d) == decompress("zlib", d.f)

decompress_lzma(d) == decompress("lzma", d.f)

\* SWF.compress, called as self.compress(compress_method, input_buffer)
compress(kind, input_buffer) ==
    IF ~BoundCallOk(CompressParams, 2)
    THEN [res |-> "TypeError", out |-> <<>>]
    ELSE [res |-> "NameError", out |-> <<>>]   \* the body reads the unbound name self

compress_zlib(input_buffer) == compress("zlib", input_buffer)

compress_lzma(input_buffer) == compress("lzma", input_buffer)

\* SWF.parse(data) on a document whose header is h: the result and the
\* document's _data and _header when parse returns or raises
parse(h, bytes) ==
    LET d0 == SWFStream(bytes)
        hr == SWFHeader(d0)
    IN  IF hr.res # "ok"
        THEN [res |-> hr.res, data |-> hr.stream, header |-> h]
        ELSE IF compressed(hr.header)
        THEN LET dz == IF hr.header.compressed_zlib
                       THEN decompress_zlib(hr.stream)
                       ELSE decompress_lzma(hr.stream)
             IN  IF dz.res # "ok"
                 THEN [res |-> dz.res, data |-> hr.stream, header |-> hr.header]
                 ELSE LET d1 == SWFStream(dz.out)
                          r  == readRECT(d1)
                          fr == readFIXED8(r.s)
                          fc == readUI16(fr.s)
                      IN  [res |-> "ok", data |-> fc.s,
                           header |-> [hr.header EXCEPT !.frame_size = r.v,
                                                        !.frame_rate = fr.v,
                                                        !.frame_count = fc.v]]
        ELSE LET r  == readRECT(hr.stream)
                 fr == readFIXED8(r.s)
                 fc == readUI16(fr.s)
             IN  [res |-> "ok", data |-> fc.s,
                  header |-> [hr.header EXCEPT !.frame_size = r.v,
                                               !.frame_rate = fr.v,
                                               !.frame_count = fc.v]]

\* export as it would be if it called exporter.export(self) and so let
\* force_stroke fall back to the exporter's default
export_default_stroke(d, tg, ret, force_stroke) ==
    IF ~d.some
    THEN [res |-> "NotLoaded", ret |-> 0, calls |-> <<>>]
    ELSE IF Len(tg) = 0
    THEN [res |-> "EmptyDocument", ret |-> 0, calls |-> <<>>]
    ELSE [res |-> "ok", ret |-> ret,
          calls |-> <<[force_stroke |-> FALSE, result |-> ret]>>]

\* SWF.export(exporter, force_stroke); ret is what exporter.export returns
export(d, tg, ret, force_stroke) ==
    IF ~d.some
    THEN [res |-> "NotLoaded", ret |-> 0, calls |-> <<>>]
    ELSE IF Len(tg) = 0
    THEN [res |-> "EmptyDocument", ret |-> 0, calls |-> <<>>]
    ELSE [res |-> "ok", ret |-> ret,
          calls |-> <<[force_stroke |-> force_stroke, result |-> ret]>>]

\* SWF.save(file) on an empty file: the result and the file's content
save(h, tg) ==
    IF ~h.some
    THEN [res |-> "AttributeError", sink |-> <<>>]       \* None has no save
    ELSE LET f1 == header_save(h, <<>>)
         IN  IF ~Callable(compressed(h))
             THEN [res |-> "TypeError", sink |-> f1]     \* self._header.compressed()
             ELSE LET b1 == writeRECT(<<>>, h.frame_size)
                      b2 == writeFIXED8(b1, h.frame_rate)
                      b3 == writeUI16(b2, h.frame_count) \o tg
                      cz == IF h.compressed_zlib THEN compress_zlib(b3)
                            ELSE compress_lzma(b3)
                  IN  IF ~compressed(h)
                      THEN [res |-> "ok", sink |-> f1 \o b3]
                      ELSE [res |-> cz.res, sink |-> f1]

---------------------------------------------------------------------------
(* Inputs *)

LE32(v) == writeUI32(<<>>, v)

\* rectangle 0, frame rate 12.0 (raw 3072), frame count 1
PlainBody == <<0, 0, 12, 1, 0>>

\* the body of a file of a kind: the plain fields, or their stream of that kind
Body(kind) == IF kind = "none" THEN PlainBody ELSE CodecEncode(kind, PlainBody)

\* the files handed to parse: each marker in both version buckets, the body
\* plain or a stream of the marker's kind
Sources ==
    { <<a, SigW, SigS, v>> \o LE32(13) \o Body(kind) :
        a \in {SigF, SigC, SigZ}, v \in {6, 7}, kind \in Kinds }

\* the 8 header bytes handed to SWFHeader(...) on its own
ByteAlphabet == {SigF, SigC, SigZ, SigW, SigS, 0}

Versions == {0, 6, 7, 255}

HeaderSources ==
    { <<a, b, c, v>> \o LE32(n) :
        a \in ByteAlphabet, b \in ByteAlphabet, c \in ByteAlphabet,
        v \in Versions, n \in {16909060} }

ChunkArgs == {DefaultChunkSize, 1}

Payloads == {<<>>, <<5>>, <<1, 2, 3>>}

ExporterResults == {1, 2}

TagBytes == {9}

FrameSizes == {120}

FrameRates == {6144}

FrameCounts == {2}

---------------------------------------------------------------------------
(* Operations *)

Done(op, res) == [op |-> op, res |-> res, ret |-> 0, arg |-> FALSE]

\* SWF(chunk_size = cs), no file
Init ==
    /\ data = NoData
    /\ header = NoHeader
    /\ chunk_size = DefaultChunkSize
    /\ tags = <<>>
    /\ chunk_arg \in ChunkArgs
    /\ sink = <<>>
    /\ last = Done("construct", "ok")
    /\ calls = <<>>
    /\ src = <<>>
    /\ hdr_src = <<>>
    /\ parsed = "never"

\* SWF(None, cs): a new document takes the place of the old one
Construct(cs) ==
    /\ data' = NoData
    /\ header' = NoHeader
    /\ chunk_size' = DefaultChunkSize
    /\ tags' = <<>>
    /\ chunk_arg' = cs
    /\ sink' = <<>>
    /\ last' = Done("construct", "ok")
    /\ calls' = <<>>
    /\ src' = <<>>
    /\ hdr_src' = <<>>
    /\ parsed' = "never"

\* SWF(file, cs): __init__ calls parse; when parse raises no document is
\* made and the caller keeps the one it had
ConstructFile(cs, bytes) ==
    LET r == parse(NoHeader, bytes)
    IN  /\ last' = Done("construct_file", r.res)
        /\ sink' = <<>>
        /\ calls' = <<>>
        /\ src' = bytes
        /\ IF r.res = "ok"
           THEN /\ data' = r.data
                /\ header' = r.header
                /\ chunk_size' = DefaultChunkSize
                /\ tags' = <<>>
                /\ chunk_arg' = cs
                /\ hdr_src' = SubSeq(bytes, 1, 8)
                /\ parsed' = "ok"
           ELSE UNCHANGED <<data, header, chunk_size, tags, chunk_arg, hdr_src,
                            parsed>>

\* doc.parse(file)
Parse(bytes) ==
    LET r == parse(header, bytes)
    IN  /\ data' = r.data
        /\ header' = r.header
        /\ last' = Done("parse", r.res)
        /\ sink' = <<>>
        /\ calls' = <<>>
        /\ src' = bytes
        /\ hdr_src' = IF r.header = header THEN hdr_src ELSE SubSeq(bytes, 1, 8)
        /\ parsed' = IF parsed = "ok" \/ r.res = "ok" THEN "ok" ELSE "failed"
        /\ UNCHANGED <<chunk_size, tags, chunk_arg>>

\* doc.export(exporter, force_stroke) with an exporter that returns ret
Export(ret, force_stroke) ==
    LET r == export(data, tags, ret, force_stroke)
    IN  /\ last' = [op |-> "export", res |-> r.res, ret |-> r.ret,
                    arg |-> force_stroke]
        /\ calls' = r.calls
        /\ sink' = <<>>
        /\ src' = <<>>
        /\ UNCHANGED <<data, header, chunk_size, tags, chunk_arg, hdr_src,
                       parsed>>

\* doc.save(file) on an empty file
Save ==
    LET r == save(header, tags)
    IN  /\ last' = Done("save", r.res)
        /\ sink' = r.sink
        /\ calls' = <<>>
        /\ src' = <<>>
        /\ UNCHANGED <<data, header, chunk_size, tags, chunk_arg, hdr_src,
                       parsed>>

\* doc.header.save(file, stream) on an empty file
HeaderSave ==
    /\ header.some
    /\ last' = Done("header_save", "ok")
    /\ sink' = header_save(header, <<>>)
    /\ calls' = <<>>
    /\ src' = <<>>
    /\ UNCHANGED <<data, header, chunk_size, tags, chunk_arg, hdr_src, parsed>>

AfterSetter(op) ==
    /\ last' = Done(op, "ok")
    /\ sink' = <<>>
    /\ calls' = <<>>
    /\ src' = <<>>
    /\ UNCHANGED <<data, chunk_size, tags, chunk_arg, hdr_src, parsed>>

\* doc.header.frame_size = v
SetFrameSize(v) ==
    /\ header.some
    /\ header' = [header EXCEPT !.frame_size = v]
    /\ AfterSetter("frame_size")

\* doc.header.frame_rate = v
SetFrameRate(v) ==
    /\ header.some
    /\ header' = [header EXCEPT !.frame_rate = v]
    /\ AfterSetter("frame_rate")

\* doc.header.frame_count = v
SetFrameCount(v) ==
    /\ header.some
    /\ header' = [header EXCEPT !.frame_count = v]
    /\ AfterSetter("frame_count")

\* doc.tags.append(t)
AddTag(t) ==
    /\ Len(tags) < MaxTags
    /\ tags' = Append(tags, t)
    /\ last' = Done("add_tag", "ok")
    /\ sink' = <<>>
    /\ calls' = <<>>
    /\ src' = <<>>
    /\ UNCHANGED <<data, header, chunk_size, chunk_arg, hdr_src, parsed>>

\* doc.compress_zlib(BytesIO(payload)) / doc.compress_lzma(BytesIO(payload))
Compress(kind, payload) ==
    LET r == IF kind = "zlib" THEN compress_zlib(payload) ELSE compress_lzma(payload)
    IN  /\ last' = Done(IF kind = "zlib" THEN "compress_zlib" ELSE "compress_lzma",
                        r.res)
        /\ sink' = r.out
        /\ calls' = <<>>
        /\ src' = payload
        /\ UNCHANGED <<data, header, chunk_size, tags, chunk_arg, hdr_src,
                       parsed>>

\* doc.decompress_zlib() / doc.decompress_lzma(): they read self._data.f
Decompress(kind) ==
    LET r == IF ~data.some THEN [res |-> "AttributeError", out |-> <<>>]
             ELSE IF kind = "zlib" THEN decompress_zlib(data)
             ELSE decompress_lzma(data)
    IN  /\ last' = Done(IF kind = "zlib" THEN "decompress_zlib"
                        ELSE "decompress_lzma", r.res)
        /\ sink' = r.out
        /\ calls' = <<>>
        /\ src' = <<>>
        /\ UNCHANGED <<data, header, chunk_size, tags, chunk_arg, hdr_src,
                       parsed>>

\* SWFHeader(SWFStream(bytes)) on its own: the header under test
HeaderNew(bytes) ==
    LET r == SWFHeader(SWFStream(bytes))
    IN  /\ data' = r.stream
        /\ header' = r.header
        /\ last' = Done("header_init", r.res)
        /\ sink' = <<>>
        /\ calls' = <<>>
        /\ src' = bytes
        /\ hdr_src' = IF r.res = "ok" THEN bytes ELSE <<>>
        /\ UNCHANGED <<chunk_size, tags, chunk_arg, parsed>>

Next ==
    \/ \E cs \in ChunkArgs : Construct(cs)
    \/ \E cs \in ChunkArgs, bytes \in Sources : ConstructFile(cs, bytes)
    \/ \E bytes \in Sources : Parse(bytes)
    \/ \E ret \in ExporterResults, fs \in BOOLEAN : Export(ret, fs)
    \/ Save
    \/ HeaderSave
    \/ \E v \in FrameSizes : SetFrameSize(v)
    \/ \E v \in FrameRates : SetFrameRate(v)
    \/ \E v \in FrameCounts : SetFrameCount(v)
    \/ \E t \in TagBytes : AddTag(t)
    \/ \E kind \in {"zlib", "lzma"}, payload \in Payloads : Compress(kind, payload)
    \/ \E kind \in {"zlib", "lzma"} : Decompress(kind)

Spec == Init /\ [][Next]_vars

\* the header on its own: construction from 8 bytes, save and the setters
NextHeader ==
    \/ \E bytes \in HeaderSources : HeaderNew(bytes)
    \/ HeaderSave
    \/ \E v \in FrameSizes : SetFrameSize(v)
    \/ \E v \in FrameRates : SetFrameRate(v)
    \/ \E v \in FrameCounts : SetFrameCount(v)

SpecHeader == Init /\ [][NextHeader]_vars

---------------------------------------------------------------------------
(* The signature mapping of the specification: the compression kind of a  *)
(* (version, byte triple), "invalid" for a triple outside the table.       *)

SignatureKind(a, b, c, version) ==
    IF version > 6
    THEN IF b # 87 \/ c # 83 THEN "invalid"
         ELSE IF a = 70 THEN "none"
         ELSE IF a = 67 THEN "zlib"
         ELSE IF a = 90 THEN "lzma"
         ELSE "invalid"
    ELSE IF a # 70 \/ b # 87 THEN "invalid"
         ELSE IF c = 83 THEN "none"
         ELSE IF c = 67 THEN "zlib"
         ELSE IF c = 90 THEN "lzma"
         ELSE "invalid"

HeaderKind(h) ==
    IF h.compressed_zlib THEN "zlib" ELSE IF h.compressed_lzma THEN "lzma" ELSE "none"

---------------------------------------------------------------------------
(* Claims *)

\* C1: SWFHeader(stream) accepts exactly the triples of the signature mapping
\* for the version read (version > 6: FWS, CWS, ZWS; version <= 6: FWS, FWC,
\* FWZ) and raises SWFHeaderException, producing no header, on every other.
C1_SignatureExhaustive ==
    last.op = "header_init" =>
        IF SignatureKind(src[1], src[2], src[3], src[4]) # "invalid"
        THEN last.res = "ok" /\ header.some
        ELSE last.res = "SWFHeaderException" /\ ~header.some

\* C2: for a header of version > 6, SWFHeader.save writes the 8 bytes the
\* header was parsed from: signature triple, version, little-endian length.
C2_HeaderRoundTrip ==
    (last.op = "header_save" /\ header.version > 6) => sink = hdr_src

\* C3: export on a never-parsed document raises the not-loaded error and on a
\* parsed document without tags the empty-document error, neither calling
\* the exporter; on a parsed document with a tag it calls the exporter once
\* with the caller's force_stroke and returns the exporter's result.
C3_ExportGating ==
    last.op = "export" =>
        /\ parsed = "never" => (last.res = "NotLoaded" /\ calls = <<>>)
        /\ (parsed = "ok" /\ tags = <<>>) =>
                (last.res = "EmptyDocument" /\ calls = <<>>)
        /\ (parsed = "ok" /\ tags # <<>>) =>
                /\ last.res = "ok"
                /\ Len(calls) = 1
                /\ calls[1].force_stroke = last.arg
                /\ last.ret = calls[1].result

C3_Witness ==
    /\ last.op = "export"
    /\ parsed = "ok"
    /\ tags # <<>>
    /\ last.arg = TRUE
    /\ Len(calls) = 1

\* C4: while no parse of the document has returned normally, export and save
\* both raise the not-loaded error, and save on a never-parsed document
\* writes nothing.
C4_NotLoadedUntilParsed ==
    parsed # "ok" =>
        /\ last.op = "export" => last.res = "NotLoaded"
        /\ last.op = "save" =>
                (last.res = "NotLoaded" /\ (parsed = "never" => sink = <<>>))

\* C5: save of a parsed document with an uncompressed header of version > 6
\* returns normally and the file holds the header bytes, the rectangle, the
\* frame rate, the frame count and the tags, in this order.
C5_SaveUncompressed ==
    (/\ last.op = "save"
     /\ parsed = "ok"
     /\ header.some
     /\ ~compressed(header)
     /\ header.version > 6) =>
        /\ last.res = "ok"
        /\ sink = header_save(header, <<>>)
                    \o writeUI16(writeFIXED8(writeRECT(<<>>, header.frame_size),
                                             header.frame_rate),
                                 header.frame_count)
                    \o tags

\* C6: save of a document with a compressed header returns normally and the
\* file holds the header bytes followed by the whole stream, of the header's
\* kind, of the body.
C6_SaveCompressed ==
    (last.op = "save" /\ header.some /\ compressed(header)) =>
        /\ last.res = "ok"
        /\ sink = header_save(header, <<>>)
                    \o CodecEncode(HeaderKind(header),
                         writeUI16(writeFIXED8(writeRECT(<<>>, header.frame_size),
                                               header.frame_rate),
                                   header.frame_count) \o tags)

\* C7: a parse that reads a compressed header in front of a valid stream of
\* the header's kind returns normally, the working stream is the decompressed
\* bytes and the frame fields are the ones of the plaintext; a parse that
\* reads an uncompressed header keeps the original stream.
C7_ParseCompressed ==
    (last.op = "parse" /\ last.res # "SWFHeaderException") =>
        LET body == SubSeq(src, 9, Len(src))
            kind == HeaderKind(header)
            plain == CodecPlain(kind, body)
        IN  IF compressed(header)
            THEN CodecValid(kind, body) =>
                    /\ last.res = "ok"
                    /\ data.f = plain
                    /\ header.frame_size = plain[1]
                    /\ header.frame_rate = plain[2] + 256 * plain[3]
                    /\ header.frame_count = plain[4] + 256 * plain[5]
            ELSE last.res = "ok" /\ data.f = src /\ data.pos > 8

\* C8: for both kinds and every payload, compress returns a stream that
\* decompresses to the payload.
C8_CompressRoundTrip ==
    last.op \in {"compress_zlib", "compress_lzma"} =>
        LET kind == IF last.op = "compress_zlib" THEN "zlib" ELSE "lzma"
        IN  /\ last.res = "ok"
            /\ CodecValid(kind, sink)
            /\ CodecPlain(kind, sink) = src

\* C9: the kind of every header is the one the signature mapping gives for
\* the bytes it was built from, at most one of the zlib and lzma flags is
\* set, compressed is true exactly when the kind is not none, and the
\* setters, SWFHeader.save, export and save leave version, file_length and
\* kind as they were.
C9_KindFromMapping ==
    header.some =>
        /\ HeaderKind(header)
             = SignatureKind(hdr_src[1], hdr_src[2], hdr_src[3], hdr_src[4])
        /\ ~(header.compressed_zlib /\ header.compressed_lzma)
        /\ compressed(header) <=> (HeaderKind(header) # "none")

C9_KindFixed ==
    (/\ header.some
     /\ last'.op \in {"frame_size", "frame_rate", "frame_count", "header_save",
                      "export", "save"}) =>
        /\ header'.some
        /\ header'.version = header.version
        /\ header'.file_length = header.file_length
        /\ HeaderKind(header') = HeaderKind(header)

C9_CompressionImmutable == [](C9_KindFromMapping) /\ [][C9_KindFixed]_vars

\* C10: the document reads chunks of the size its constructor was given.
C10_ChunkSizePerDocument == chunk_size = chunk_arg

====
